---- MODULE Spec2Model ----
(***************************************************************************)
(* A model of jira_pipeline.py: the watermark read from the destination,   *)
(* the timestamp formatter, the paginated Jira fetch, the record mapping   *)
(* and the merge load keyed on id.                                         *)
(*                                                                         *)
(* Python values are records tagged by `kind`:                             *)
(*   None            [kind |-> "None"]                                     *)
(*   a missing key   [kind |-> "absent"]   (a dict without that key)       *)
(*   a string        [kind |-> "str", form |-> ...]; three forms:          *)
(*      "iso"   YYYY-MM-DDTHH:MM:SS<tz>, kept as its fields                *)
(*      "text"  any other text, kept as its characters                     *)
(*      "jql"   YYYY-MM-DD HH:MM, the output of strftime                   *)
(*      "json"  the output of json.dumps, kept as the value it encodes     *)
(*   a datetime      [kind |-> "datetime", ...]                            *)
(*   a raised error  [kind |-> "raise", exc |-> ...]                       *)
(***************************************************************************)
EXTENDS Integers, Sequences, FiniteSets

VARIABLES
    arg,        \* the argument of the pure function under check
    ret,        \* its result, Pending before the call
    pc,         \* where the process is: import, main, catalog, max, format, fetch, load, done, failed, aborted
    failure,    \* the exception that ended the process, "" when none
    env,        \* which credentials the environment sets
    pipeline,   \* whether dlt.pipeline(...) has been initialised
    conn,       \* the connection of get_last_updated_timestamp: none, open (held by the
                \* running function), unreferenced (still open, the function returned), closed
    queries,    \* the queries this run has sent over conn, in order
    tableExists, \* whether jira_issues.jira_issues exists in the destination
    table,      \* its rows
    table0,     \* its rows when the current run started
    jira,       \* the issues the Jira server holds, in its default order
    pageCap,    \* the most issues the server puts in one page
    last_updated,
    formatted_last_updated,
    jql_filter,
    start_at,
    all_issues,
    requests,   \* the search requests of this run, in order
    responses,  \* the responses to them
    loads,      \* how many runs have reached the end of their load
    changes,    \* how many times Jira has changed
    history     \* prev: how the last run that reached its load ended, "none" when
                \* there is none or Jira has changed since it started;
                \* changed: whether Jira has changed since this run started

None == [kind |-> "None"]
Absent == [kind |-> "absent"]
Pending == [kind |-> "pending"]
IntVal(n) == [kind |-> "int", n |-> n]
Raise(e) == [kind |-> "raise", exc |-> e]
Text(cs) == [kind |-> "str", form |-> "text", chars |-> cs]
EmptyStr == Text(<< >>)
IsoStr(da, h, m, s, z) ==
    [kind |-> "str", form |-> "iso", date |-> da, hh |-> h, mm |-> m, ss |-> s, tz |-> z]
DateTime(da, h, m, s, z) ==
    [kind |-> "datetime", date |-> da, hh |-> h, mm |-> m, ss |-> s, tz |-> z]
NotADate == Text(<<"n", "o", "t", "-", "a", "-", "d", "a", "t", "e">>)

\* Python truthiness of the values the program tests with `if x` / `x if x else`.
Truthy(v) ==
    CASE v.kind = "None" -> FALSE
      [] v.kind = "absent" -> FALSE
      [] v.kind = "str" /\ v.form = "text" -> v.chars # << >>
      [] v.kind = "dict" -> v.nonempty
      [] OTHER -> TRUE

(***************************************************************************)
(* format_timestamp                                                        *)
(***************************************************************************)

\* datetime.isoformat(): the fields joined, the offset appended when aware.
isoformat(dt) == IsoStr(dt.date, dt.hh, dt.mm, dt.ss, dt.tz)

RECURSIVE ReplaceChars(_)
ReplaceChars(cs) ==
    IF cs = << >> THEN << >>
    ELSE IF Head(cs) = "Z"
         THEN <<"+", "0", "0", ":", "0", "0">> \o ReplaceChars(Tail(cs))
         ELSE <<Head(cs)>> \o ReplaceChars(Tail(cs))

\* str.replace("Z", "+00:00"): every Z of the string becomes +00:00.
replace_Z(s) ==
    IF s.form = "iso"
    THEN IF s.tz = "Z" THEN [s EXCEPT !.tz = "+00:00"] ELSE s
    ELSE Text(ReplaceChars(s.chars))

IsLeap(y) == (y % 4 = 0 /\ y % 100 # 0) \/ y % 400 = 0
DaysInMonth(y, m) ==
    IF m = 2 THEN (IF IsLeap(y) THEN 29 ELSE 28)
    ELSE IF m \in {4, 6, 9, 11} THEN 30 ELSE 31

\* datetime.fromisoformat(): ValueError for a text that is no ISO date-time, for a
\* field out of range and for a zone that is not an explicit +HH:MM offset.
fromisoformat(s) ==
    IF s.form # "iso" THEN Raise("ValueError")
    ELSE IF /\ s.date[2] \in 1..12
            /\ s.date[3] \in 1..DaysInMonth(s.date[1], s.date[2])
            /\ s.hh \in 0..23 /\ s.mm \in 0..59 /\ s.ss \in 0..59
            /\ s.tz # "Z"
         THEN DateTime(s.date, s.hh, s.mm, s.ss, s.tz)
         ELSE Raise("ValueError")

\* The mutant of strftime: the seconds kept ('%Y-%m-%d %H:%M:%S').
strftime_seconds(dt) ==
    [kind |-> "str", form |-> "jql", date |-> dt.date, hh |-> dt.hh, mm |-> dt.mm, ss |-> dt.ss]

\* dt.strftime('%Y-%m-%d %H:%M')
strftime(dt) == [kind |-> "str", form |-> "jql", date |-> dt.date, hh |-> dt.hh, mm |-> dt.mm]

\* The mutant of format_timestamp: the ValueError not caught.
format_timestamp_uncaught(timestamp) ==
    IF Truthy(timestamp)
    THEN LET t1 == IF timestamp.kind = "datetime" THEN isoformat(timestamp) ELSE timestamp
             t2 == replace_Z(t1)
             dt == fromisoformat(t2)
         IN  IF dt.kind = "raise" THEN dt ELSE strftime(dt)
    ELSE None

format_timestamp(timestamp) ==
    IF Truthy(timestamp)
    THEN LET t1 == IF timestamp.kind = "datetime" THEN isoformat(timestamp) ELSE timestamp
             t2 == replace_Z(t1)
             dt == fromisoformat(t2)
         IN  IF dt.kind = "raise" THEN None ELSE strftime(dt)
    ELSE None

(***************************************************************************)
(* The record mapping of load_issues                                       *)
(***************************************************************************)

\* A dict with the one key the program reads; `nonempty` is whether it has any key.
Dict1(v, ne) == [kind |-> "dict", val |-> v, nonempty |-> ne]

\* d.get(key, default) on the value stored under the key (Absent: no such key).
dict_get(v, default) == IF v.kind = "absent" THEN default ELSE v

\* x.get("name", "") where x is what fields.get(k, {}) returned.
get_name(x) ==
    IF x.kind = "dict" THEN dict_get(x.val, EmptyStr) ELSE Raise("AttributeError")

\* assignee["displayName"] if assignee else None
assignee_name(assignee) ==
    IF Truthy(assignee)
    THEN IF assignee.val.kind = "absent" THEN Raise("KeyError") ELSE assignee.val
    ELSE None

json_dumps(v) == [kind |-> "str", form |-> "json", of |-> v]

EmptyDict == Dict1(Absent, FALSE)

\* One iteration of the loop of load_issues: the record yielded for `issue`, or the
\* exception the iteration raises.
MapIssue(issue) ==
    LET f == issue.fields
        an == assignee_name(dict_get(f.assignee, None))
        st == get_name(dict_get(f.status, EmptyDict))
        it == get_name(dict_get(f.issuetype, EmptyDict))
    IN  IF an.kind = "raise" THEN an
        ELSE IF st.kind = "raise" THEN st
        ELSE IF it.kind = "raise" THEN it
        ELSE [kind |-> "record",
              id |-> issue.id,
              key |-> issue.key,
              summary |-> dict_get(f.summary, EmptyStr),
              status |-> st,
              assignee |-> an,
              created_date |-> dict_get(f.created, EmptyStr),
              updated_date |-> dict_get(f.updated, EmptyStr),
              issue_type |-> it,
              fields_json |-> json_dumps(f)]

(***************************************************************************)
(* The Jira server: the issues it holds and how it answers a search        *)
(***************************************************************************)

max_results == 100
project_key == "DT"

Key(proj, n) == [proj |-> proj, n |-> n]
Stamp(k) == IsoStr(<<2024, 1, k>>, 10, 15, 30, "Z")
Name(c) == Dict1(Text(<<c>>), TRUE)

Fields(su, st, asg, cr, up, it) ==
    [summary |-> su, status |-> st, assignee |-> asg, created |-> cr, updated |-> up,
     issuetype |-> it]
FullFields(up) == Fields(Text(<<"s">>), Name("o"), Name("a"), Stamp(1), up, Name("t"))
\* An issue with no assignee whose response carries the summary and the dates only.
PlainFields(up) == Fields(Text(<<"s">>), Absent, None, Absent, up, Absent)
Issue(i, proj, f) == [id |-> i, key |-> Key(proj, i), fields |-> f]

\* The issues of the server at the start, by configuration.
JiraConfigs == {"empty", "odd", "nostamp", "nullstatus", "p2", "p3"}
InitialJira(c) ==
    CASE c = "empty" -> << >>
      [] c = "odd" ->
            << Issue(1, "DT", [FullFields(Stamp(1)) EXCEPT !.assignee = None]),
               Issue(2, "DT", [FullFields(NotADate) EXCEPT !.status = Absent]),
               Issue(3, "OPS", FullFields(Stamp(2))),
               Issue(4, "DT", [FullFields(Stamp(2)) EXCEPT !.issuetype = Absent,
                                                           !.assignee = Absent]) >>
      [] c = "nostamp" ->
            << Issue(1, "DT", [FullFields(Absent) EXCEPT !.summary = Absent]),
               Issue(2, "DT", [FullFields(None) EXCEPT !.created = Absent]) >>
      [] c = "nullstatus" ->
            << Issue(1, "DT", [FullFields(Stamp(1)) EXCEPT !.status = None]) >>
      [] c = "p2" -> [i \in 1..100 |-> Issue(i, "DT", PlainFields(Stamp(1 + (i % 2))))]
      [] c = "p3" -> [i \in 1..250 |-> Issue(i, "DT", PlainFields(Stamp(1 + (i % 2))))]

RECURSIVE LexLess(_, _)
LexLess(a, b) ==
    IF a = << >> THEN b # << >>
    ELSE IF b = << >> THEN FALSE
    ELSE IF Head(a) # Head(b) THEN Head(a) < Head(b)
    ELSE LexLess(Tail(a), Tail(b))

Minute(s) == <<s.date[1], s.date[2], s.date[3], s.hh, s.mm>>
Second(s) == Minute(s) \o <<s.ss>>

\* Whether the server counts `issue` as matching the filter: its project, and its
\* update time at or after the literal when the filter carries one.
Matches(issue, jql) ==
    /\ issue.key.proj = jql.project
    /\ jql.since.kind # "None" =>
          /\ issue.fields.updated.kind = "str"
          /\ issue.fields.updated.form = "iso"
          /\ ~LexLess(Minute(issue.fields.updated), Minute(jql.since))

\* The issues of s whose update time is in ks, latest first.
RECURSIVE SortByTimes(_, _)
SortByTimes(s, ks) ==
    IF ks = {} THEN << >>
    ELSE LET mx == CHOOSE k \in ks : \A o \in ks : ~LexLess(k, o)
             IsMax(x) == Second(x.fields.updated) = mx
         IN  SelectSeq(s, IsMax) \o SortByTimes(s, ks \ {mx})

\* ORDER BY updated DESC, issues of equal update time in the server's default order.
SortUpdatedDesc(s) == SortByTimes(s, {Second(s[i].fields.updated) : i \in 1..Len(s)})

Min(a, b) == IF a < b THEN a ELSE b

\* The issues matching the filter, in the order the filter asks for.
SearchResult(jql) ==
    LET Hit(x) == Matches(x, jql)
        hits == SelectSeq(jira, Hit)
    IN  IF jql.order_by = "updated DESC" THEN SortUpdatedDesc(hits) ELSE hits

\* The page of a search: from startAt, at most maxResults and at most pageCap issues.
Page(q) ==
    LET all == SearchResult(q.jql)
    IN  SubSeq(all, q.startAt + 1, Min(Len(all), q.startAt + Min(q.maxResults, pageCap)))

\* The response to request q. kind: "ok", "error" (HTTP 500) or "no_total" (a
\* success whose body carries no total); without credentials every answer is 401.
Response(q, kind) ==
    IF ~env.JIRA_API_TOKEN THEN [status_code |-> 401, total |-> Absent, issues |-> << >>]
    ELSE IF kind = "error" THEN [status_code |-> 500, total |-> Absent, issues |-> << >>]
    ELSE [status_code |-> 200,
          total |-> IF kind = "no_total" THEN Absent ELSE IntVal(Len(SearchResult(q.jql))),
          issues |-> Page(q)]

(***************************************************************************)
(* The destination                                                         *)
(***************************************************************************)

\* The order of SQL strings: "" first, then the ISO texts by their fields, then
\* the texts that start with a letter.
SqlKey(v) ==
    IF v.form = "iso" THEN <<1>> \o Second(v) \o <<IF v.tz = "Z" THEN 1 ELSE 0>>
    ELSE IF v.chars = << >> THEN <<0>> ELSE <<2>>

\* The mutant of SqlMax: MIN for MAX.
SqlMin(rows) ==
    LET vals == {rows[i].updated_date : i \in 1..Len(rows)} \ {None}
    IN  IF vals = {} THEN None
        ELSE CHOOSE v \in vals : \A o \in vals : ~LexLess(SqlKey(o), SqlKey(v))

\* SELECT MAX(updated_date): NULL (None) when no row has a non-null value.
SqlMax(rows) ==
    LET vals == {rows[i].updated_date : i \in 1..Len(rows)} \ {None}
    IN  IF vals = {} THEN None
        ELSE CHOOSE v \in vals : \A o \in vals : ~LexLess(SqlKey(v), SqlKey(o))

\* The mutant of write_disposition: the table replaced by the load.
write_disposition_replace == "replace"

\* The mutant of write_disposition: the insert-only load.
write_disposition_append == "append"

\* Lines 142-143: the arguments of pipeline.run.
write_disposition == "merge"
primary_key == "id"

Indices(s) == [i \in 1..Len(s) |-> i]

\* The records of a load package with one record left per key: the first of each
\* key (first = TRUE) or the last.
Dedup(recs, pk, first) ==
    LET Keep(i) ==
            IF first THEN \A j \in 1..(i - 1) : recs[j][pk] # recs[i][pk]
            ELSE \A j \in (i + 1)..Len(recs) : recs[j][pk] # recs[i][pk]
        kept == SelectSeq(Indices(recs), Keep)
    IN  IF Cardinality({recs[i][pk] : i \in 1..Len(recs)}) = Len(recs)
        THEN recs
        ELSE [k \in 1..Len(kept) |-> recs[kept[k]]]

\* pipeline.run(records, write_disposition=disposition, primary_key=pk): the rows
\* of the table after the load.
pipeline_run(rows, recs, disposition, pk, first) ==
    CASE disposition = "append" -> rows \o recs
      [] disposition = "replace" -> recs
      [] disposition = "merge" ->
            LET keys == {recs[i][pk] : i \in 1..Len(recs)}
                Stays(r) == r[pk] \notin keys
            IN  SelectSeq(rows, Stays) \o Dedup(recs, pk, first)

vars == <<arg, ret, pc, failure, env, pipeline, conn, queries, tableExists, table, table0,
          jira, pageCap, last_updated, formatted_last_updated, jql_filter, start_at,
          all_issues, requests, responses, loads, changes, history>>

(***************************************************************************)
(* The program                                                             *)
(***************************************************************************)

MaxLoads == 2
MaxChanges == 1
PageCaps == {50, 100}
ResponseKinds == {"ok", "error", "no_total"}

pureVars == <<arg, ret>>
dbVars == <<tableExists, table, table0>>
jiraVars == <<jira, pageCap, changes>>
localVars == <<last_updated, formatted_last_updated, jql_filter, start_at, all_issues>>
logVars == <<requests, responses>>

NoFilter == [project |-> "", since |-> None, order_by |-> ""]
NoHistory == [prev |-> "none", changed |-> FALSE]

\* A process that has not started: nothing imported, no local assigned.
Fresh ==
    /\ pc = "import"
    /\ failure = ""
    /\ pipeline = FALSE
    /\ conn = "none"
    /\ queries = << >>
    /\ last_updated = None
    /\ formatted_last_updated = None
    /\ jql_filter = NoFilter
    /\ start_at = 0
    /\ all_issues = << >>
    /\ requests = << >>
    /\ responses = << >>

Init ==
    /\ arg = Pending
    /\ ret = Pending
    /\ Fresh
    /\ env \in [MOTHERDUCK_TOKEN : BOOLEAN, JIRA_API_TOKEN : BOOLEAN]
    /\ tableExists \in BOOLEAN
    /\ table = << >>
    /\ table0 = << >>
    /\ jira \in {InitialJira(c) : c \in JiraConfigs}
    /\ pageCap \in PageCaps
    /\ loads = 0
    /\ changes = 0
    /\ history = NoHistory

\* The mutant of ModuleInit: the pipeline initialised before the token is checked.
ModuleInit_late ==
    /\ pc = "import"
    /\ pipeline' = TRUE
    /\ IF ~env.MOTHERDUCK_TOKEN
       THEN /\ failure' = "ValueError"
            /\ pc' = "aborted"
       ELSE /\ pc' = "main"
            /\ UNCHANGED failure
    /\ UNCHANGED <<pureVars, env, conn, queries, dbVars, jiraVars, localVars, logVars, loads,
                   history>>

\* Lines 11-31: the module's top level. A missing destination token raises
\* before the pipeline is initialised.
ModuleInit ==
    /\ pc = "import"
    /\ IF ~env.MOTHERDUCK_TOKEN
       THEN /\ failure' = "ValueError"
            /\ pc' = "aborted"
            /\ UNCHANGED pipeline
       ELSE /\ pipeline' = TRUE
            /\ pc' = "main"
            /\ UNCHANGED failure
    /\ UNCHANGED <<pureVars, env, conn, queries, dbVars, jiraVars, localVars, logVars, loads,
                   history>>

\* main() runs the pipeline, which starts load_issues, which calls get_jira_issues,
\* which calls get_last_updated_timestamp: duckdb.connect (line 51).
Connect ==
    /\ pc = "main"
    /\ conn' = "open"
    /\ pc' = "catalog"
    /\ UNCHANGED <<pureVars, failure, env, pipeline, queries, dbVars, jiraVars, localVars,
                   logVars, loads, history>>

\* The connection when get_last_updated_timestamp returns (lines 64, 69): the
\* function has not closed it and drops its only reference to it; the program
\* has no close() call and no `with` block, so nothing in it closes the
\* connection afterwards.
ConnAtReturn == "unreferenced"

\* Lines 54-64: the catalog query; a missing table returns None.
CatalogQuery ==
    /\ pc = "catalog"
    /\ queries' = Append(queries, "catalog")
    /\ \/ /\ failure' = "QueryError"
          /\ pc' = "failed"
          /\ UNCHANGED <<conn, last_updated>>
       \/ LET table_exists == IF tableExists THEN 1 ELSE 0
          IN  IF table_exists = 0
              THEN /\ last_updated' = None
                   /\ conn' = ConnAtReturn
                   /\ pc' = "format"
                   /\ UNCHANGED failure
              ELSE /\ pc' = "max"
                   /\ UNCHANGED <<failure, conn, last_updated>>
    /\ UNCHANGED <<pureVars, env, pipeline, dbVars, jiraVars, formatted_last_updated,
                   jql_filter, start_at, all_issues, logVars, loads, history>>

\* Lines 67-69: SELECT MAX(updated_date); `result[0] if result[0] else None`.
MaxQuery ==
    /\ pc = "max"
    /\ queries' = Append(queries, "max")
    /\ \/ /\ failure' = "QueryError"
          /\ pc' = "failed"
          /\ UNCHANGED <<conn, last_updated>>
       \/ LET result == SqlMax(table)
          IN  /\ last_updated' = IF Truthy(result) THEN result ELSE None
              /\ conn' = ConnAtReturn
              /\ pc' = "format"
              /\ UNCHANGED failure
    /\ UNCHANGED <<pureVars, env, pipeline, dbVars, jiraVars, formatted_last_updated,
                   jql_filter, start_at, all_issues, logVars, loads, history>>

\* The mutant of BuildJql: the filter of the full load whatever the watermark.
BuildJql_full(key, formatted) == [project |-> key, since |-> None, order_by |-> ""]

\* Lines 84-86: project = "<key>", and with a watermark
\* AND updated >= "<watermark>" ORDER BY updated DESC.
BuildJql(key, formatted) ==
    IF Truthy(formatted)
    THEN [project |-> key, since |-> formatted, order_by |-> "updated DESC"]
    ELSE [project |-> key, since |-> None, order_by |-> ""]

\* Lines 74-86: the watermark formatted, the locals of the fetch set, the filter built.
BuildFilter ==
    /\ pc = "format"
    /\ LET formatted == format_timestamp(last_updated)
       IN  IF formatted.kind = "raise"
           THEN /\ failure' = formatted.exc
                /\ pc' = "failed"
                /\ UNCHANGED <<formatted_last_updated, jql_filter, start_at, all_issues>>
           ELSE /\ formatted_last_updated' = formatted
                /\ jql_filter' = BuildJql(project_key, formatted)
                /\ start_at' = 0
                /\ all_issues' = << >>
                /\ pc' = "fetch"
                /\ UNCHANGED failure
    /\ UNCHANGED <<pureVars, env, pipeline, conn, queries, dbVars, jiraVars,
                   last_updated, logVars, loads, history>>

\* The mutant of LoopEnds: `>` for `>=`.
LoopEnds_after(start, data) == start > dict_get(data.total, IntVal(0)).n

\* Line 103: start_at >= data.get('total', 0)
LoopEnds(start, data) == start >= dict_get(data.total, IntVal(0)).n

\* The mutant of AfterResponse: a failed page is asked for again.
AfterResponse_retry(response, start) ==
    IF response.status_code = 200
    THEN IF LoopEnds(start, response) THEN "load" ELSE "fetch"
    ELSE "fetch"

\* Lines 98-107: whether the loop goes on ("fetch") or get_jira_issues returns
\* ("load") after a response, start being start_at after the response is handled.
AfterResponse(response, start) ==
    IF response.status_code = 200
    THEN IF LoopEnds(start, response) THEN "load" ELSE "fetch"
    ELSE "load"

\* The mutant of FetchPage: each page is mapped and loaded as it arrives.
FetchPage_streaming(kind) ==
    /\ pc = "fetch"
    /\ LET query == [jql |-> jql_filter, startAt |-> start_at, maxResults |-> max_results]
           response == Response(query, kind)
           recs == [i \in 1..Len(response.issues) |-> MapIssue(response.issues[i])]
       IN  /\ requests' = Append(requests, query)
           /\ responses' = Append(responses, response)
           /\ IF response.status_code = 200
              THEN /\ all_issues' = all_issues \o response.issues
                   /\ start_at' = start_at + max_results
              ELSE UNCHANGED <<all_issues, start_at>>
           /\ pc' = AfterResponse(response, start_at')
           /\ table' = IF \A i \in 1..Len(recs) : recs[i].kind = "record"
                       THEN pipeline_run(table, recs, write_disposition, primary_key, TRUE)
                       ELSE table
           /\ tableExists' = (tableExists \/ table' # << >>)
           /\ UNCHANGED table0
    /\ UNCHANGED <<pureVars, failure, env, pipeline, conn, queries, jiraVars,
                   last_updated, formatted_last_updated, jql_filter, loads, history>>

\* Lines 88-107: one iteration of the page loop.
FetchPage(kind) ==
    /\ pc = "fetch"
    /\ LET query == [jql |-> jql_filter, startAt |-> start_at, maxResults |-> max_results]
           response == Response(query, kind)
       IN  /\ requests' = Append(requests, query)
           /\ responses' = Append(responses, response)
           /\ IF response.status_code = 200
              THEN /\ all_issues' = all_issues \o response.issues
                   /\ start_at' = start_at + max_results
              ELSE UNCHANGED <<all_issues, start_at>>
           /\ pc' = AfterResponse(response, start_at')
    /\ UNCHANGED <<pureVars, failure, env, pipeline, conn, queries, dbVars, jiraVars,
                   last_updated, formatted_last_updated, jql_filter, loads, history>>

\* Lines 117-146: the loop of load_issues over the fetched issues and the load of
\* what it yields. An exception in the loop ends the run before anything is loaded.
Load ==
    /\ pc = "load"
    /\ LET recs == [i \in 1..Len(all_issues) |-> MapIssue(all_issues[i])]
           bad == {i \in 1..Len(recs) : recs[i].kind = "raise"}
       IN  IF bad # {}
           THEN /\ failure' = recs[CHOOSE i \in bad : \A j \in bad : i <= j].exc
                /\ pc' = "failed"
                /\ UNCHANGED dbVars
           ELSE /\ \E first \in BOOLEAN :
                      table' = pipeline_run(table, recs, write_disposition, primary_key, first)
                /\ UNCHANGED table0
                /\ tableExists' = (tableExists \/ recs # << >>)
                /\ pc' = "done"
                /\ UNCHANGED failure
    /\ loads' = IF pc' = "done" THEN loads + 1 ELSE loads
    /\ UNCHANGED <<pureVars, env, pipeline, conn, queries, jiraVars, localVars, logVars,
                   history>>

\* How the run that has just reached the end of its load went: "clean" when the
\* responses of its fetch were all successes, "partial" when it loaded the pages
\* fetched before a non-success response, "other" when its first request failed.
Outcome ==
    IF \A k \in 1..Len(responses) : responses[k].status_code = 200 THEN "clean"
    ELSE IF Len(responses) >= 2 THEN "partial"
    ELSE "other"

\* The process has ended; the job is started again.
NextRun ==
    /\ pc \in {"done", "failed"}
    /\ loads < MaxLoads
    /\ history' = IF pc = "done" /\ ~history.changed
                  THEN [prev |-> Outcome, changed |-> FALSE]
                  ELSE [history EXCEPT !.changed = FALSE]
    /\ table0' = table
    /\ pc' = "import"
    /\ failure' = ""
    /\ pipeline' = FALSE
    /\ conn' = "none"
    /\ queries' = << >>
    /\ last_updated' = None
    /\ formatted_last_updated' = None
    /\ jql_filter' = NoFilter
    /\ start_at' = 0
    /\ all_issues' = << >>
    /\ requests' = << >>
    /\ responses' = << >>
    /\ UNCHANGED <<pureVars, env, tableExists, table, jiraVars, loads>>

Touched(f) == [f EXCEPT !.updated = Stamp(3 + changes), !.summary = Text(<<"s", "2">>)]

\* Someone edits the issue at position p of the server's list.
UpdateIssue(p) ==
    /\ jira' = [jira EXCEPT ![p].fields = Touched(@)]

\* Someone creates an issue; the server lists it first.
CreateIssue ==
    /\ jira' = <<Issue(Len(jira) + 1, project_key, FullFields(Stamp(3 + changes)))>> \o jira

\* Jira changes between two page requests or between two runs.
JiraChange ==
    /\ \/ pc = "fetch" /\ requests # << >>
       \/ pc = "done"
    /\ changes < MaxChanges
    /\ changes' = changes + 1
    /\ history' = [prev |-> "none", changed |-> TRUE]
    /\ \/ \E p \in {Len(jira)} \cap DOMAIN jira : UpdateIssue(p)
       \/ CreateIssue
    /\ UNCHANGED <<pureVars, pc, failure, env, pipeline, conn, queries, dbVars, pageCap,
                   localVars, logVars, loads>>

Next ==
    \/ ModuleInit
    \/ Connect
    \/ CatalogQuery
    \/ MaxQuery
    \/ BuildFilter
    \/ \E kind \in ResponseKinds : FetchPage(kind)
    \/ Load
    \/ NextRun
    \/ JiraChange

Spec == Init /\ [][Next]_vars

(***************************************************************************)
(* The pure functions on their own: the argument drawn, the function       *)
(* applied once.                                                           *)
(***************************************************************************)

\* The process state of the specifications that only apply a function.
Idle ==
    /\ Fresh
    /\ env = [MOTHERDUCK_TOKEN |-> TRUE, JIRA_API_TOKEN |-> TRUE]
    /\ tableExists = FALSE
    /\ table = << >>
    /\ table0 = << >>
    /\ jira = << >>
    /\ pageCap = max_results
    /\ loads = 0
    /\ changes = 0
    /\ history = NoHistory

pipelineVars == <<pc, failure, env, pipeline, conn, queries, dbVars, jiraVars, localVars,
                  logVars, loads, history>>

Dates == {<<2024, 1, 5>>, <<2024, 2, 29>>, <<2023, 2, 29>>, <<2024, 13, 1>>, <<2024, 4, 31>>}
Zones == {"", "Z", "+00:00", "+02:00"}

\* The values format_timestamp is given: nothing, ISO strings (some with a field
\* out of range), other texts, and datetime objects.
TimestampInputs ==
    {None, EmptyStr, NotADate, Text(<<"Z">>)}
    \cup {IsoStr(d, h, m, s, z) :
            d \in Dates, h \in {0, 10, 23, 24}, m \in {0, 15, 60}, s \in {0, 30}, z \in Zones}
    \cup {DateTime(d, h, m, s, z) :
            d \in {<<2024, 1, 5>>, <<2024, 2, 29>>}, h \in {0, 10, 23}, m \in {0, 15},
            s \in {0, 30}, z \in Zones \ {"Z"}}

InitFormat ==
    /\ arg \in TimestampInputs
    /\ ret = Pending
    /\ Idle

CallFormat ==
    /\ ret = Pending
    /\ ret' = format_timestamp(arg)
    /\ UNCHANGED <<arg, pipelineVars>>

SpecFormat == InitFormat /\ [][CallFormat]_vars

\* The raw issues the mapping is given: every optional sub-field absent, null
\* or present; a status, issue type or assignee object also without the key read.
RawIssues ==
    {Issue(1, "DT", Fields(su, st, asg, cr, up, it)) :
        su \in {Absent, None, Text(<<"s">>)},
        st \in {Absent, None, Name("o"), Dict1(Absent, TRUE)},
        asg \in {Absent, None, Name("a"), EmptyDict, Dict1(Absent, TRUE)},
        cr \in {Absent, None, Stamp(1)},
        up \in {Absent, None, Stamp(2)},
        it \in {Absent, None, Name("t"), Dict1(Absent, TRUE)}}

InitMap ==
    /\ arg \in RawIssues
    /\ ret = Pending
    /\ Idle

CallMap ==
    /\ ret = Pending
    /\ ret' = MapIssue(arg)
    /\ UNCHANGED <<arg, pipelineVars>>

SpecMap == InitMap /\ [][CallMap]_vars

\* The days of each month of a leap year.
MonthDays == <<31, 29, 31, 30, 31, 30, 31, 31, 30, 31, 30, 31>>

\* Whether <<year, month, day>> is a date of the calendar.
RealDate(d) ==
    /\ d[2] \in 1..12
    /\ d[3] >= 1
    /\ d[3] <= MonthDays[d[2]]
    /\ (d[2] = 2 /\ d[3] = 29) => IsLeap(d[1])

\* Whether a value given to format_timestamp denotes a date-time: a datetime
\* object, or an ISO string whose date exists and whose time is a time of day.
DenotesTime(v) ==
    \/ v.kind = "datetime"
    \/ /\ v.kind = "str"
       /\ v.form = "iso"
       /\ RealDate(v.date) /\ v.hh <= 23 /\ v.mm <= 59 /\ v.ss <= 59

(***************************************************************************)
(* C1 - C8: the pipeline                                                   *)
(***************************************************************************)

\* The issues of the pages of rs, in the order of rs.
RECURSIVE Concat(_)
Concat(rs) == IF rs = << >> THEN << >> ELSE Head(rs).issues \o Concat(Tail(rs))

\* Every response so far is a success and all carry the same total.
UniformTotal ==
    /\ responses # << >>
    /\ \A k \in 1..Len(responses) :
          /\ responses[k].status_code = 200
          /\ responses[k].total.kind = "int"
          /\ responses[k].total = responses[1].total

\* C1: when every response is a success carrying the same total T, the requests
\* are startAt = 0, 100, 200, ... with page size 100, one per offset; the loop
\* goes on exactly while offset + 100 is below T and stops after the first request
\* whose offset + 100 reaches T; the result is the pages concatenated in arrival
\* order; for T = 250 that is the three requests 0, 100, 200 and, the pages being
\* of 100, 100 and 50 issues, 250 issues.
C1_Pagination ==
    UniformTotal =>
        LET n == Len(responses)
            T == responses[1].total.n
        IN  /\ Len(requests) = n
            /\ \A k \in 1..n : requests[k].startAt = 100 * (k - 1) /\ requests[k].maxResults = 100
            /\ \A k \in 1..(n - 1) : 100 * (k - 1) + 100 < T
            /\ (pc = "fetch") <=> (100 * (n - 1) + 100 < T)
            /\ all_issues = Concat(responses)
            /\ (T = 250 /\ pc # "fetch") =>
                  /\ [k \in 1..n |-> requests[k].startAt] = <<0, 100, 200>>
                  /\ (\A k \in 1..n : Len(responses[k].issues) = Min(100, 250 - 100 * (k - 1)))
                        => Len(all_issues) = 250

\* C1, reached: three successful pages of a total of 250 have been fetched.
C1_Witness ==
    /\ UniformTotal
    /\ responses[1].total.n = 250
    /\ pc = "load"
    /\ Len(requests) = 3
    /\ Len(all_issues) = 250

\* C2: a non-success response is the last of its run: no request follows it, the
\* function returns the issues of the pages before it, nothing is raised and the
\* run goes on to the load with them.
C2_ErrorAborts ==
    \A k \in 1..Len(responses) :
        responses[k].status_code # 200 =>
            /\ Len(responses) = k
            /\ Len(requests) = k
            /\ pc \in {"load", "done"}
            /\ failure = ""
            /\ all_issues = Concat(SubSeq(responses, 1, k - 1))

\* C2, reached: the second page failed and the first page alone was loaded.
C2_Witness ==
    /\ Len(responses) = 2
    /\ responses[2].status_code = 500
    /\ pc = "done"
    /\ Len(all_issues) = 100
    /\ Len(table) = 100

RowSet(rows) == {rows[i] : i \in 1..Len(rows)}
IdSet(rows) == {rows[i].id : i \in 1..Len(rows)}

\* C3: the table holds at most one row per id; after a load, the row of every id
\* the load carried is a record of that load, whole, and the rows of the other
\* ids are the rows they were before the load.
C3_MergeById ==
    /\ Cardinality(IdSet(table)) = Len(table)
    /\ pc = "done" =>
          LET batch == {MapIssue(all_issues[j]) : j \in 1..Len(all_issues)}
              ids == IdSet(all_issues)
          IN  /\ ids \subseteq IdSet(table)
              /\ {r \in RowSet(table) : r.id \in ids} \subseteq batch
              /\ {r \in RowSet(table) : r.id \notin ids} = {r \in RowSet(table0) : r.id \notin ids}

\* C3, reached: a second load has replaced the row of an id by other values and
\* left one row per id.
C3_Witness ==
    /\ pc = "done"
    /\ table0 # << >>
    /\ IdSet(table) = IdSet(table0)
    /\ RowSet(table) # RowSet(table0)

\* C4 as claimed: a request of a run without watermark restricts to the project,
\* carries no `updated >=` and orders by created descending.
C4_FullLoadOrder ==
    \A k \in 1..Len(requests) :
        formatted_last_updated = None =>
            /\ requests[k].jql.project = "DT"
            /\ requests[k].jql.since = None
            /\ requests[k].jql.order_by = "created DESC"

\* C5: with a formatted watermark, every request of the run carries the same
\* filter: the project, updated >= that watermark, ordered by updated descending.
C5_IncrementalFilter ==
    formatted_last_updated # None =>
        \A k \in 1..Len(requests) :
            requests[k].jql = [project |-> "DT", since |-> formatted_last_updated,
                               order_by |-> "updated DESC"]

\* C5, reached: an incremental run has sent two page requests.
C5_Witness ==
    /\ formatted_last_updated # None
    /\ Len(requests) >= 2

\* The watermark has been read and the run has not yet loaded anything.
WatermarkRead == pc \in {"format", "fetch", "load"}

Latest(v, vals) == v \in vals /\ \A o \in vals : ~LexLess(SqlKey(v), SqlKey(o))

\* C6 as claimed: the catalog check comes first; a missing table gives None
\* without the MAX query; an existing table gives the maximum updated_date of its
\* rows, and None when it has no rows.
C6_MaxOrNone ==
    /\ queries \in {<< >>, <<"catalog">>, <<"catalog", "max">>}
    /\ WatermarkRead =>
          IF ~tableExists
          THEN last_updated = None /\ queries = <<"catalog">>
          ELSE /\ queries = <<"catalog", "max">>
               /\ LET vals == {table[i].updated_date : i \in 1..Len(table)} \ {None}
                  IN  /\ table = << >> => last_updated = None
                      /\ vals # {} => Latest(last_updated, vals)

\* C6, amended: as claimed, except that the maximum is returned only when it is
\* a non-empty value: None when the table has no rows, when no row has an
\* updated_date, or when the maximum is the empty string.
C6_Watermark ==
    /\ queries \in {<< >>, <<"catalog">>, <<"catalog", "max">>}
    /\ WatermarkRead =>
          IF ~tableExists
          THEN last_updated = None /\ queries = <<"catalog">>
          ELSE /\ queries = <<"catalog", "max">>
               /\ LET vals == {table[i].updated_date : i \in 1..Len(table)} \ {None, EmptyStr}
                  IN  IF vals = {} THEN last_updated = None ELSE Latest(last_updated, vals)

\* C6, reached: the watermark read from a table whose rows carry several update
\* times is one of them.
C6_Witness ==
    /\ pc = "format"
    /\ tableExists
    /\ last_updated # None
    /\ Cardinality({table[i].updated_date : i \in 1..Len(table)}) >= 2

\* C7 as claimed: in every terminal state of a run no connection the run opened
\* is still open.
C7_ConnReleased ==
    pc \in {"done", "failed", "aborted"} => conn \in {"none", "closed"}

\* C8: a run that found the table missing, or empty, or read a watermark that
\* does not parse, is not ended by the formatter, holds no formatted watermark and
\* sends only requests without `updated >=`.
C8_AbsentWatermarkFullLoad ==
    LET read == pc \in {"format", "fetch", "load", "done", "failed"} /\ failure # "QueryError"
        missing == queries = <<"catalog">>
        empty == queries = <<"catalog", "max">> /\ table0 = << >>
    IN  (read /\ (missing \/ empty \/ ~DenotesTime(last_updated))) =>
            /\ failure # "ValueError"
            /\ formatted_last_updated = None
            /\ \A k \in 1..Len(requests) : requests[k].jql.since = None

\* C8, reached: a run whose stored watermark does not parse has fetched with the
\* full-load filter and loaded.
C8_Witness ==
    /\ pc = "done"
    /\ last_updated = NotADate
    /\ requests # << >>
    /\ \A k \in 1..Len(requests) : requests[k].jql.since = None

(***************************************************************************)
(* C9                                                                      *)
(***************************************************************************)

JqlLiteral(d, h, m) == [kind |-> "str", form |-> "jql", date |-> d, hh |-> h, mm |-> m]

\* C9: format_timestamp never raises; it returns None for an absent input and for
\* an input that does not parse; for an input that parses it returns the
\* YYYY-MM-DD HH:MM string of the input's date, hour and minute, seconds and
\* offset dropped; "2024-01-05T10:15:30Z" gives "2024-01-05 10:15".
C9_FormatTotal ==
    ret # Pending =>
        /\ ret.kind # "raise"
        /\ arg = None => ret = None
        /\ ~DenotesTime(arg) => ret = None
        /\ DenotesTime(arg) => ret = JqlLiteral(arg.date, arg.hh, arg.mm)
        /\ arg = IsoStr(<<2024, 1, 5>>, 10, 15, 30, "Z") =>
              ret = JqlLiteral(<<2024, 1, 5>>, 10, 15)

\* C9, reached: the Z-suffixed example has been formatted.
C9_Witness ==
    /\ arg = IsoStr(<<2024, 1, 5>>, 10, 15, 30, "Z")
    /\ ret = JqlLiteral(<<2024, 1, 5>>, 10, 15)

(***************************************************************************)
(* C10                                                                     *)
(***************************************************************************)

\* The raw issues the claim is about: each optional sub-field absent, null or whole.
Whole(v) == v.kind = "str" \/ (v.kind = "dict" /\ v.val.kind = "str")
InClaimDomain(issue) ==
    \A k \in DOMAIN issue.fields :
        issue.fields[k] \in {Absent, None} \/ Whole(issue.fields[k])

\* C10 as claimed: the mapping never fails for a raw issue whose optional
\* sub-fields are absent or null in any combination; assignee maps to null when
\* there is no assignee, status and issue_type to "" when their object is absent.
C10_MapTotal ==
    (ret # Pending /\ InClaimDomain(arg)) =>
        /\ ret.kind # "raise"
        /\ arg.fields.assignee \in {Absent, None} => ret.assignee = None
        /\ arg.fields.status = Absent => ret.status = EmptyStr
        /\ arg.fields.issuetype = Absent => ret.issue_type = EmptyStr

(***************************************************************************)
(* C11 - C17: the fetch as a whole and the runs one after another          *)
(***************************************************************************)

\* Every response of this run so far is a success.
AllSucceeded == \A k \in 1..Len(responses) : responses[k].status_code = 200

\* Jira has not changed since this run started.
UnchangedInRun == ~history.changed

\* How many times x occurs in s.
Occurrences(x, s) == Cardinality({i \in 1..Len(s) : s[i] = x})

\* C11 as claimed: when every page request succeeded and Jira did not change
\* during the fetch, the sequence get_jira_issues returns holds every issue that
\* matches the filter exactly once and nothing else, whatever the size (at most
\* 100) of the pages the server returned.
C11_CompleteFetch ==
    (pc = "load" /\ AllSucceeded /\ UnchangedInRun) =>
        LET matching == SearchResult(jql_filter)
        IN  /\ \A i \in 1..Len(matching) : Occurrences(matching[i], all_issues) = 1
            /\ RowSet(all_issues) \subseteq RowSet(matching)

\* C12: the phases of a run come in the order watermark read, format, fetch, map,
\* load: no page is requested before the watermark has been read and formatted
\* (every request carries the filter built from the formatted watermark), and the
\* table is as the run found it until the last page request has completed and the
\* load has run.
C12_PhaseOrder ==
    /\ pc \in {"import", "main", "catalog", "max", "format"} => requests = << >>
    /\ requests # << >> =>
          /\ queries # << >>
          /\ queries[1] = "catalog"
          /\ conn = ConnAtReturn
          /\ formatted_last_updated = format_timestamp(last_updated)
          /\ \A k \in 1..Len(requests) :
                requests[k].jql = BuildJql(project_key, formatted_last_updated)
    /\ pc # "done" => table = table0
    /\ table # table0 => pc = "done" /\ all_issues # << >>

\* C12, reached: an incremental run has read the watermark, fetched two pages and
\* then changed the table.
C12_Witness ==
    /\ pc = "done"
    /\ queries = <<"catalog", "max">>
    /\ formatted_last_updated # None
    /\ Len(requests) >= 2
    /\ table # table0

\* C13: without the destination token the process ends at startup with the
\* ValueError of line 24, before anything else: the pipeline is not initialised,
\* no connection is opened, no query and no Jira request is sent; with the
\* destination token set, missing Jira credentials do not end the process at
\* startup: the pipeline is initialised and the run goes on to its requests,
\* which are then answered 401.
C13_StartupCheck ==
    /\ ~env.MOTHERDUCK_TOKEN =>
          /\ pc \in {"import", "aborted"}
          /\ pc = "aborted" => failure = "ValueError"
          /\ pipeline = FALSE
          /\ conn = "none"
          /\ queries = << >>
          /\ requests = << >>
          /\ table = << >>
    /\ env.MOTHERDUCK_TOKEN =>
          /\ pc # "aborted"
          /\ failure # "ValueError"
          /\ pc # "import" => pipeline = TRUE
          /\ ~env.JIRA_API_TOKEN =>
                \A k \in 1..Len(responses) : responses[k].status_code = 401

\* C13, reached: the process has ended at startup for want of the destination token.
C13_Witness ==
    /\ ~env.MOTHERDUCK_TOKEN
    /\ pc = "aborted"
    /\ failure = "ValueError"

\* C14 as claimed: a run that follows a run whose requests all succeeded, every
\* request of its own succeeding too and Jira unchanged since the earlier run
\* started, leaves the table as that earlier run left it: the same ids, the same
\* rows, no row twice.
C14_RerunIdempotent ==
    (pc = "done" /\ history.prev = "clean" /\ AllSucceeded) =>
        /\ IdSet(table) = IdSet(table0)
        /\ RowSet(table) = RowSet(table0)
        /\ Len(table) = Len(table0)

\* The rows the table should hold when it is current: the record of every issue
\* of the project as Jira holds it now.
CurrentRows ==
    {MapIssue(jira[i]) : i \in {j \in 1..Len(jira) : jira[j].key.proj = project_key}}

\* C15 as claimed, taken where the server fills its pages and reports the total in
\* every success (the fetch of the later run is then complete): the run after a
\* run that loaded only the pages before a non-success response, every request of
\* its own succeeding and Jira unchanged since the partial run started, leaves in
\* the table the current version of every issue of the project.
C15_PartialRecovered ==
    (/\ pc = "done"
     /\ history.prev = "partial"
     /\ AllSucceeded
     /\ pageCap = max_results
     /\ \A k \in 1..Len(responses) : responses[k].total.kind = "int")
        => CurrentRows \subseteq RowSet(table)

\* The largest total the responses of this run have reported, 0 when none has.
MaxTotal ==
    LET ts == {dict_get(responses[k].total, IntVal(0)).n : k \in 1..Len(responses)} \cup {0}
    IN  CHOOSE t \in ts : \A o \in ts : o <= t

\* C16: the page loop ends: with T a bound of the totals reported, a run sends at
\* most ceil(T / 100) requests when T > 0, and exactly one when its first response
\* reports the total 0 or carries no total; startAt goes up by 100 from one
\* request to the next, so no offset is asked for twice.
C16_LoopBound ==
    LET n == Len(requests)
        T == MaxTotal
    IN  /\ Len(responses) = n
        /\ \A k \in 1..n : requests[k].startAt = 100 * (k - 1)
        /\ \A j, k \in 1..n : j # k => requests[j].startAt # requests[k].startAt
        /\ T > 0 => 100 * n < T + 100
        /\ (n >= 1 /\ dict_get(responses[1].total, IntVal(0)).n = 0) => n = 1 /\ pc # "fetch"
        /\ (pc = "fetch" /\ n >= 1) => 100 * n < T

\* C16, reached: the first response was a success without a total while 250 issues
\* matched, and the loop ended after that one request.
C16_Witness ==
    /\ pc = "load"
    /\ Len(requests) = 1
    /\ responses[1].status_code = 200
    /\ responses[1].total = Absent
    /\ Len(jira) = 250
    /\ Len(all_issues) = 100

\* C17: a run removes no row: every id the table held when the run started is
\* still in it; the row of an id that is not among the issues the run fetched is
\* as it was; and a run whose first page request failed leaves the table as it
\* found it.
C17_NoRowRemoved ==
    /\ IdSet(table0) \subseteq IdSet(table)
    /\ LET fetched == IdSet(all_issues)
           rows == RowSet(table)
       IN  \A i \in 1..Len(table0) : table0[i].id \notin fetched => table0[i] \in rows
    /\ (responses # << >> /\ responses[1].status_code # 200) =>
          all_issues = << >> /\ table = table0

\* C17, reached: a run whose first page request failed has ended and the rows of
\* the earlier load are all there.
C17_Witness ==
    /\ pc = "done"
    /\ table0 # << >>
    /\ responses[1].status_code # 200
    /\ table = table0

====
